---- MODULE Spec2Model ----
(***************************************************************************)
(* The request handler of apigw-http-api-lambda-dynamodb-python-cdk        *)
(* (lambda/apigw-handler/index.py): one HTTP-shaped event in, at most one  *)
(* DynamoDB put_item, one HTTP-shaped response out, with JSON log lines.   *)
(* Several invocations run concurrently against one table; an invocation   *)
(* is atomic up to its put_item call, the call itself is atomic, and the   *)
(* code after the call (success log, return) is a further step.            *)
(***************************************************************************)
EXTENDS Integers, Sequences, FiniteSets, TLC

\* Number of handler invocations the execution environment runs concurrently.
MaxInvocations == 2

Invocations == 1..MaxInvocations

-----------------------------------------------------------------------------
(* JSON values and texts.  A scalar is [t, s, n]: t its JSON type, s the   *)
(* text of a string, n the value of a number (1/0 for true/false).  A body *)
(* text is the sequence of its JSON tokens; the empty text is <<>>.        *)

JStr(s)  == [t |-> "str",  s |-> s,  n |-> 0]
JInt(n)  == [t |-> "int",  s |-> "", n |-> n]
JNull    == [t |-> "null", s |-> "", n |-> 0]
P(c)     == [t |-> "punct", s |-> c, n |-> 0]

IsScalar(tok) == tok.t \in {"str", "int", "bool", "null"}

\* Python's None, as the value of a log field or of a dict lookup.
None == JNull

\* str(x) of a parsed JSON scalar (index.py lines 43-45).
pyStr(v) ==
  CASE v.t = "str"  -> v.s
    [] v.t = "int"  -> ToString(v.n)
    [] v.t = "bool" -> IF v.n = 1 THEN "True" ELSE "False"
    [] OTHER        -> "None"

\* The members of a JSON object text after its opening brace:
\*   key : value ( , key : value )* }
\* acc is the dict built so far; a repeated key keeps the last value.
\* The result is [ok, obj]; ok = FALSE is json.JSONDecodeError.
RECURSIVE ParseMembers(_, _)
ParseMembers(toks, acc) ==
  IF Len(toks) < 4 \/ toks[1].t # "str" \/ toks[2] # P(":") \/ ~IsScalar(toks[3])
  THEN [ok |-> FALSE, obj |-> <<>>]
  ELSE LET k    == toks[1].s
           acc2 == [x \in (DOMAIN acc) \cup {k} |-> IF x = k THEN toks[3] ELSE acc[x]]
       IN  IF toks[4] = P("}")
           THEN [ok |-> Len(toks) = 4, obj |-> IF Len(toks) = 4 THEN acc2 ELSE <<>>]
           ELSE IF toks[4] = P(",")
                THEN ParseMembers(SubSeq(toks, 5, Len(toks)), acc2)
                ELSE [ok |-> FALSE, obj |-> <<>>]

\* The elements of a JSON array text after its opening bracket.
RECURSIVE ParseElements(_)
ParseElements(toks) ==
  IF Len(toks) < 2 \/ ~IsScalar(toks[1]) THEN FALSE
  ELSE IF toks[2] = P("]") THEN Len(toks) = 2
       ELSE IF toks[2] = P(",") THEN ParseElements(SubSeq(toks, 3, Len(toks)))
            ELSE FALSE

\* json.loads(text) (index.py line 37): [kind, obj, scalar] where kind is
\* "object" (obj its dict), "array", "scalar" or "error" (JSONDecodeError).
JErr == [kind |-> "error", obj |-> <<>>, scalar |-> JNull]

json_loads(toks) ==
  IF Len(toks) = 0 THEN JErr
  ELSE IF toks[1] = P("{")
       THEN IF Len(toks) = 2 /\ toks[2] = P("}")
            THEN [kind |-> "object", obj |-> <<>>, scalar |-> JNull]
            ELSE LET r == ParseMembers(Tail(toks), <<>>)
                 IN  IF r.ok THEN [kind |-> "object", obj |-> r.obj, scalar |-> JNull]
                     ELSE JErr
       ELSE IF toks[1] = P("[")
            THEN IF (Len(toks) = 2 /\ toks[2] = P("]")) \/ ParseElements(Tail(toks))
                 THEN [kind |-> "array", obj |-> <<>>, scalar |-> JNull]
                 ELSE JErr
            ELSE IF Len(toks) = 1 /\ IsScalar(toks[1])
                 THEN [kind |-> "scalar", obj |-> <<>>, scalar |-> toks[1]]
                 ELSE JErr

-----------------------------------------------------------------------------
(* Exceptions and dict access.                                             *)

Exc(type, message) == [type |-> type, message |-> message]
NoExc == Exc("", "")

\* item[key] on the value json.loads returned (index.py lines 43-45):
\* [exc, value]; exc = NoExc when the subscript succeeds.  str(KeyError(k))
\* is the repr of k.
Subscript(r, key) ==
  CASE r.kind = "object" ->
         IF key \in DOMAIN r.obj
         THEN [exc |-> NoExc, value |-> r.obj[key]]
         ELSE [exc |-> Exc("KeyError", "'" \o key \o "'"), value |-> JNull]
    [] r.kind = "array" ->
         [exc |-> Exc("TypeError", "list indices must be integers or slices, not str"),
          value |-> JNull]
    [] OTHER ->
         [exc |-> Exc("TypeError",
                      CASE r.scalar.t = "str"  -> "string indices must be integers"
                        [] r.scalar.t = "int"  -> "'int' object is not subscriptable"
                        [] r.scalar.t = "bool" -> "'bool' object is not subscriptable"
                        [] OTHER               -> "'NoneType' object is not subscriptable"),
          value |-> JNull]

-----------------------------------------------------------------------------
(* Events and contexts.                                                    *)

\* event["body"]: k = "absent" (no such key), "null" (JSON null) or "str"
\* (a text, toks its tokens).
Body(k, toks) == [k |-> k, toks |-> toks]
NoBody   == Body("absent", <<>>)
NullBody == Body("null", <<>>)
Text(toks) == Body("str", toks)

\* event["requestContext"] and its "identity": absent, null or a dict.
Identity(k, ip, ua) == [k |-> k, sourceIp |-> ip, userAgent |-> ua]
RequestContext(k, ident, method) == [k |-> k, identity |-> ident, httpMethod |-> method]
EmptyIdentity == Identity("dict", None, None)
EmptyDict     == RequestContext("dict", Identity("absent", None, None), None)

Event(body, rc) == [body |-> body, requestContext |-> rc]

\* The invocation context: attrs the attributes the object has.
Context(attrs, rid) == [attrs |-> attrs, request_id |-> rid]

\* event.get("body") is truthy (index.py line 36): a non-empty string.
Truthy_present(body) == body.k # "absent"

Truthy(body) == body.k = "str" /\ Len(body.toks) > 0

\* os.environ.get("TABLE_NAME") (index.py line 23), set by the stack.
table == "demo_table"

\* The request_received log line (index.py lines 24-33): [exc, entry].
\* context.request_id raises AttributeError when the context has no such
\* attribute; event.get("requestContext", {}) returns the default only when
\* the key is absent, so a null requestContext or identity makes the
\* chained .get raise AttributeError.
RequestReceived(ev, cx) ==
  LET rc    == IF ev.requestContext.k = "absent" THEN EmptyDict ELSE ev.requestContext
      ident == IF rc.identity.k = "absent" THEN EmptyIdentity ELSE rc.identity
      noGet == Exc("AttributeError", "'NoneType' object has no attribute 'get'")
      none  == [event |-> "", level |-> ""]
  IN  IF "request_id" \notin cx.attrs
      THEN [exc |-> Exc("AttributeError", "'LambdaContext' object has no attribute 'request_id'"),
            entry |-> none]
      ELSE IF rc.k = "null" \/ ident.k = "null"
           THEN [exc |-> noGet, entry |-> none]
           ELSE [exc |-> NoExc,
                 entry |-> [level |-> "INFO", event |-> "request_received",
                            request_id |-> cx.request_id,
                            source_ip |-> ident.sourceIp,
                            user_agent |-> ident.userAgent,
                            http_method |-> rc.httpMethod]]

-----------------------------------------------------------------------------
(* Records, responses and log lines.                                       *)

\* The Item handed to put_item (index.py lines 49 and 72-76).
Item_noYear(year, title, id) == [title |-> [S |-> title], id |-> [S |-> id]]

Item(year, title, id) == [year |-> [N |-> year], title |-> [S |-> title], id |-> [S |-> id]]
NoItem == Item("", "", "")

DefaultItem_other(id) == Item("2012", "The Amazing Spider-Man", id)

DefaultItem(id) == Item("2012", "The Amazing Spider-Man 2", id)

JsonHeaders == ("Content-Type" :> "application/json")
Response(status, headers, body) == [statusCode |-> status, headers |-> headers, body |-> body]
NoResponse == Response(0, <<>>, "")

\* index.py lines 58-62 and 85-89.
Ok200 == Response(200, JsonHeaders, "{\"message\": \"Successfully inserted data!\"}")

\* index.py lines 97-104.
Throttled429 ==
  Response(429, JsonHeaders @@ ("Retry-After" :> "5"),
           "{\"message\": \"Too many requests, please retry later\"}")

\* index.py lines 112-116 and 124-128.
Error500 == Response(500, JsonHeaders, "{\"message\": \"Internal server error\"}")

ProcessingRequest(rid, payload) ==
  [level |-> "INFO", event |-> "processing_request", request_id |-> rid,
   has_payload |-> payload]

WriteSuccess(rid) ==
  [level |-> "INFO", event |-> "dynamodb_write_success", request_id |-> rid,
   table |-> table]

DynamodbThrottled(rid) ==
  [level |-> "WARNING", event |-> "dynamodb_throttled", request_id |-> rid,
   table |-> table]

DynamodbError_noDetail(rid, e) ==
  [level |-> "ERROR", event |-> "dynamodb_error", request_id |-> rid,
   error_code |-> "", error_message |-> ""]

DynamodbError(rid, e) ==
  [level |-> "ERROR", event |-> "dynamodb_error", request_id |-> rid,
   error_code |-> e.code, error_message |-> e.message]

ErrorEvent(rid, e) ==
  [level |-> "ERROR", event |-> "error", request_id |-> rid,
   error_type |-> e.type, error_message |-> e.message]

-----------------------------------------------------------------------------
(* The inputs the gateway hands to the handler.                            *)

Obj3(k1, v1, k2, v2, k3, v3) ==
  <<P("{"), JStr(k1), P(":"), v1, P(","), JStr(k2), P(":"), v2, P(","),
    JStr(k3), P(":"), v3, P("}")>>
Obj2(k1, v1, k2, v2) ==
  <<P("{"), JStr(k1), P(":"), v1, P(","), JStr(k2), P(":"), v2, P("}")>>

\* {"year": 2012, "title": "The Amazing Spider-Man 2", "id": "abc123"}
BodySpiderMan ==
  Text(Obj3("year", JInt(2012), "title", JStr("The Amazing Spider-Man 2"),
            "id", JStr("abc123")))
\* {"id": "abc123", "title": "The Matrix", "year": "1999"}
BodyMatrix ==
  Text(Obj3("id", JStr("abc123"), "title", JStr("The Matrix"), "year", JStr("1999")))
\* {"year": null, "title": "Untitled", "id": "n1"}
BodyNullYear ==
  Text(Obj3("year", JNull, "title", JStr("Untitled"), "id", JStr("n1")))
\* {"title": "The Matrix", "id": "m1"}
BodyNoYear  == Text(Obj2("title", JStr("The Matrix"), "id", JStr("m1")))
\* {"year": 1999, "id": "m1"}
BodyNoTitle == Text(Obj2("year", JInt(1999), "id", JStr("m1")))
\* {"year": 1999, "title": "The Matrix"}
BodyNoId    == Text(Obj2("year", JInt(1999), "title", JStr("The Matrix")))
\* {}
BodyEmptyObject == Text(<<P("{"), P("}")>>)
\* [2012]
BodyArray   == Text(<<P("["), JInt(2012), P("]")>>)
\* oops
BodyMalformed == Text(<<[t |-> "bad", s |-> "oops", n |-> 0]>>)
\* the empty string
BodyEmptyString == Text(<<>>)

Bodies ==
  {NoBody, NullBody, BodyEmptyString, BodySpiderMan, BodyMatrix, BodyNullYear,
   BodyNoYear, BodyNoTitle, BodyNoId, BodyEmptyObject, BodyArray, BodyMalformed}

FullRequestContext ==
  RequestContext("dict", Identity("dict", JStr("203.0.113.7"), JStr("curl/8.0")),
                 JStr("POST"))
NullRequestContext == RequestContext("null", Identity("absent", None, None), None)
RequestContexts ==
  {FullRequestContext,
   RequestContext("absent", Identity("absent", None, None), None),
   RequestContext("dict", Identity("absent", None, None), JStr("POST")),
   RequestContext("dict", Identity("null", None, None), JStr("POST")),
   NullRequestContext}

\* Every body with the gateway's usual metadata, every shape of the
\* metadata without a body, and a null requestContext with a body.
Events ==
  {Event(b, FullRequestContext) : b \in Bodies}
    \cup {Event(NoBody, rc) : rc \in RequestContexts}
    \cup {Event(BodyNoYear, NullRequestContext)}

ReqId(i) == "req-" \o ToString(i)
GoodContext(i) == Context({"request_id"}, ReqId(i))
\* A context object that names its request identifier differently.
BadContext == Context({"aws_request_id"}, "")

Inputs(i) ==
  {<<ev, GoodContext(i)>> : ev \in Events}
    \cup {<<Event(b, FullRequestContext), BadContext>> : b \in {NoBody, BodyNoYear}}

\* str(uuid.uuid4()) (index.py line 75): an identifier no earlier call
\* returned; which one is immaterial, so the next unused one is taken.
UuidOf(k) == "uuid4-" \o ToString(k)
uuid4(used) == {UuidOf(Cardinality(used) + 1)}

\* What dynamodb_client.put_item can raise (index.py lines 47-50, 70-77,
\* 90-91, 117): a botocore ClientError with the provider's error code and
\* message, or any other exception.
ClientError(code, message) == [code |-> code, message |-> message]
ClientErrors ==
  {ClientError("ProvisionedThroughputExceededException",
               "The level of configured provisioned throughput for the table was exceeded."),
   ClientError("ResourceNotFoundException", "Requested resource not found")}
OtherExceptions ==
  {Exc("EndpointConnectionError", "Could not connect to the endpoint URL")}

-----------------------------------------------------------------------------
(* The handler's code, as functions of its inputs.                         *)

\* The body branch up to the put (index.py lines 37-46): [exc, item,
\* entries].  The fields are read in the order year, title, id, so the
\* first missing one is the KeyError reported.  The JSONDecodeError message
\* is the decoder's for a text that starts with no JSON value.
HandleBody_swapped(body, rid) ==
  LET r == json_loads(body.toks)
      y == Subscript(r, "year")
      t == Subscript(r, "title")
      d == Subscript(r, "id")
      started == <<ProcessingRequest(rid, TRUE)>>
  IN  IF r.kind = "error"
      THEN [exc |-> Exc("JSONDecodeError", "Expecting value: line 1 column 1 (char 0)"),
            item |-> NoItem, entries |-> <<>>]
      ELSE IF y.exc # NoExc THEN [exc |-> y.exc, item |-> NoItem, entries |-> started]
      ELSE IF t.exc # NoExc THEN [exc |-> t.exc, item |-> NoItem, entries |-> started]
      ELSE IF d.exc # NoExc THEN [exc |-> d.exc, item |-> NoItem, entries |-> started]
      ELSE [exc |-> NoExc,
            item |-> Item(pyStr(y.value), pyStr(d.value), pyStr(t.value)),
            entries |-> started]

HandleBody(body, rid) ==
  LET r == json_loads(body.toks)
      y == Subscript(r, "year")
      t == Subscript(r, "title")
      d == Subscript(r, "id")
      started == <<ProcessingRequest(rid, TRUE)>>
  IN  IF r.kind = "error"
      THEN [exc |-> Exc("JSONDecodeError", "Expecting value: line 1 column 1 (char 0)"),
            item |-> NoItem, entries |-> <<>>]
      ELSE IF y.exc # NoExc THEN [exc |-> y.exc, item |-> NoItem, entries |-> started]
      ELSE IF t.exc # NoExc THEN [exc |-> t.exc, item |-> NoItem, entries |-> started]
      ELSE IF d.exc # NoExc THEN [exc |-> d.exc, item |-> NoItem, entries |-> started]
      ELSE [exc |-> NoExc,
            item |-> Item(pyStr(y.value), pyStr(t.value), pyStr(d.value)),
            entries |-> started]

\* except ClientError (index.py lines 90-116): [entry, response].
OnClientError_all500(rid, e) ==
  [entry |-> DynamodbError(rid, e), response |-> Error500]

OnClientError(rid, e) ==
  IF e.code = "ProvisionedThroughputExceededException"
  THEN [entry |-> DynamodbThrottled(rid), response |-> Throttled429]
  ELSE [entry |-> DynamodbError(rid, e), response |-> Error500]

\* Where control goes after the except ClientError clause (index.py lines
\* 97 and 112): both branches return, nothing loops back to the put.
AfterClientError_retry(e) ==
  IF e.code = "ProvisionedThroughputExceededException" THEN "put" ELSE "returned"

AfterClientError(e) == "returned"

\* The table after put_item(Item = it) succeeds (index.py lines 47-50,
\* 70-77): the item is inserted under its partition key id, replacing any
\* item already stored under that id.
StorePut_dropped(st, it) == st

StorePut(st, it) ==
  [k \in (DOMAIN st) \cup {it.id.S} |-> IF k = it.id.S THEN it ELSE st[k]]

\* except Exception (index.py lines 117-128): [entry, response].
OnException(rid, e) ==
  [entry |-> ErrorEvent(rid, e), response |-> Error500]

-----------------------------------------------------------------------------
(* State.                                                                  *)

VARIABLES
  pc,        \* pc[i]: "idle", "put" (about to call put_item), "written"
             \* (put_item returned), "returned", "raised" (left by an exception)
  event,     \* event[i], context[i]: the arguments of invocation i
  context,
  item,      \* item[i]: the Item invocation i built for put_item
  response,  \* response[i]: what invocation i returned
  logs,      \* logs[i]: the log lines invocation i emitted, in order
  puts,      \* puts[i]: the put_item calls invocation i issued, with outcomes
  store,     \* the table: partition key id -> the item stored under it
  uuids      \* the identifiers uuid4 has returned

vars == <<pc, event, context, item, response, logs, puts, store, uuids>>

Init ==
  /\ pc = [i \in Invocations |-> "idle"]
  /\ event = [i \in Invocations |-> Event(NoBody, FullRequestContext)]
  /\ context = [i \in Invocations |-> BadContext]
  /\ item = [i \in Invocations |-> NoItem]
  /\ response = [i \in Invocations |-> NoResponse]
  /\ logs = [i \in Invocations |-> <<>>]
  /\ puts = [i \in Invocations |-> <<>>]
  /\ store = <<>>
  /\ uuids = {}

Called(i, ev, cx) ==
  /\ pc[i] = "idle"
  /\ event' = [event EXCEPT ![i] = ev]
  /\ context' = [context EXCEPT ![i] = cx]

\* index.py lines 22-33: an exception before the try block leaves handler.
InvokeRaises(i) ==
  \E in \in Inputs(i) :
    /\ Called(i, in[1], in[2])
    /\ RequestReceived(in[1], in[2]).exc # NoExc
    /\ pc' = [pc EXCEPT ![i] = "raised"]
    /\ UNCHANGED <<item, response, logs, puts, store, uuids>>

\* index.py lines 22-46: a truthy body is parsed and the Item built.
InvokeWithBody(i) ==
  \E in \in Inputs(i) :
    LET rr == RequestReceived(in[1], in[2])
        hb == HandleBody(in[1].body, in[2].request_id)
    IN  /\ Called(i, in[1], in[2])
        /\ rr.exc = NoExc
        /\ Truthy(in[1].body)
        /\ hb.exc = NoExc
        /\ logs' = [logs EXCEPT ![i] = <<rr.entry>> \o hb.entries]
        /\ item' = [item EXCEPT ![i] = hb.item]
        /\ pc' = [pc EXCEPT ![i] = "put"]
        /\ UNCHANGED <<response, puts, store, uuids>>

\* index.py lines 22-46 and 117-128: parsing or a field access raises.
InvokeBodyFails(i) ==
  \E in \in Inputs(i) :
    LET rr == RequestReceived(in[1], in[2])
        hb == HandleBody(in[1].body, in[2].request_id)
        h  == OnException(in[2].request_id, hb.exc)
    IN  /\ Called(i, in[1], in[2])
        /\ rr.exc = NoExc
        /\ Truthy(in[1].body)
        /\ hb.exc # NoExc
        /\ logs' = [logs EXCEPT ![i] = <<rr.entry>> \o hb.entries \o <<h.entry>>]
        /\ response' = [response EXCEPT ![i] = h.response]
        /\ pc' = [pc EXCEPT ![i] = "returned"]
        /\ UNCHANGED <<item, puts, store, uuids>>

\* index.py lines 22-36 and 63-76: no truthy body, the default Item.
InvokeNoBody(i) ==
  \E in \in Inputs(i) :
    LET rr == RequestReceived(in[1], in[2])
    IN  /\ Called(i, in[1], in[2])
        /\ rr.exc = NoExc
        /\ ~Truthy(in[1].body)
        /\ \E u \in uuid4(uuids) :
             /\ uuids' = uuids \cup {u}
             /\ item' = [item EXCEPT ![i] = DefaultItem(u)]
        /\ logs' = [logs EXCEPT ![i] =
                      <<rr.entry, ProcessingRequest(in[2].request_id, FALSE)>>]
        /\ pc' = [pc EXCEPT ![i] = "put"]
        /\ UNCHANGED <<response, puts, store>>

Issued(i, outcome) ==
  puts' = [puts EXCEPT ![i] = Append(@, [item |-> item[i], outcome |-> outcome])]

\* put_item succeeds (index.py lines 47-50, 70-77): insert or replace.
PutItemOk(i) ==
  /\ pc[i] = "put"
  /\ Issued(i, "ok")
  /\ store' = StorePut(store, item[i])
  /\ pc' = [pc EXCEPT ![i] = "written"]
  /\ UNCHANGED <<event, context, item, response, logs, uuids>>

\* put_item raises ClientError (index.py lines 90-116).
PutItemClientError(i) ==
  \E e \in ClientErrors :
    LET h == OnClientError(context[i].request_id, e)
    IN  /\ pc[i] = "put"
        /\ Issued(i, e.code)
        /\ logs' = [logs EXCEPT ![i] = Append(@, h.entry)]
        /\ response' = [response EXCEPT ![i] = h.response]
        /\ pc' = [pc EXCEPT ![i] = AfterClientError(e)]
        /\ UNCHANGED <<event, context, item, store, uuids>>

\* put_item raises anything else (index.py lines 117-128).
PutItemRaises(i) ==
  \E e \in OtherExceptions :
    LET h == OnException(context[i].request_id, e)
    IN  /\ pc[i] = "put"
        /\ Issued(i, e.type)
        /\ logs' = [logs EXCEPT ![i] = Append(@, h.entry)]
        /\ response' = [response EXCEPT ![i] = h.response]
        /\ pc' = [pc EXCEPT ![i] = "returned"]
        /\ UNCHANGED <<event, context, item, store, uuids>>

\* After the put (index.py lines 52-62, 79-89): success log and 200.
Return(i) ==
  /\ pc[i] = "written"
  /\ logs' = [logs EXCEPT ![i] = Append(@, WriteSuccess(context[i].request_id))]
  /\ response' = [response EXCEPT ![i] = Ok200]
  /\ pc' = [pc EXCEPT ![i] = "returned"]
  /\ UNCHANGED <<event, context, item, puts, store, uuids>>

Next ==
  \E i \in Invocations :
    \/ InvokeRaises(i)
    \/ InvokeWithBody(i)
    \/ InvokeBodyFails(i)
    \/ InvokeNoBody(i)
    \/ PutItemOk(i)
    \/ PutItemClientError(i)
    \/ PutItemRaises(i)
    \/ Return(i)

Spec == Init /\ [][Next]_vars

-----------------------------------------------------------------------------
(* What the claims speak of, read off the event itself.                    *)

Finished(i) == pc[i] \in {"returned", "raised"}

\* The put_item call of invocation i that the store accepted, if any.
Accepted(i) == \E k \in DOMAIN puts[i] : puts[i][k].outcome = "ok"

\* toks is the text of a JSON object of scalar members.
IsObjectText(toks) ==
  /\ Len(toks) >= 2
  /\ toks[1] = P("{")
  /\ toks[Len(toks)] = P("}")
  /\ Len(toks) = 2 \/ Len(toks) % 4 = 1
  /\ \A j \in 1..((Len(toks) - 1) \div 4) :
       /\ toks[4 * j - 2].t = "str"
       /\ toks[4 * j - 1] = P(":")
       /\ IsScalar(toks[4 * j])
       /\ 4 * j + 1 < Len(toks) => toks[4 * j + 1] = P(",")

MemberIndexes(toks, key) ==
  {j \in 1..((Len(toks) - 1) \div 4) : toks[4 * j - 2] = JStr(key)}
HasMember(toks, key) == MemberIndexes(toks, key) # {}
Member(toks, key) ==
  LET js == MemberIndexes(toks, key)
  IN  toks[4 * (CHOOSE j \in js : \A m \in js : m <= j)]

\* Invocation i was called with a body that is a JSON object.
ObjectBody(i) ==
  /\ pc[i] # "idle"
  /\ event[i].body.k = "str"
  /\ IsObjectText(event[i].body.toks)

\* ... containing year (any value), title (a string) and id (a string).
CompleteBody(i) ==
  /\ ObjectBody(i)
  /\ \A key \in {"year", "title", "id"} : HasMember(event[i].body.toks, key)
  /\ Member(event[i].body.toks, "title").t = "str"
  /\ Member(event[i].body.toks, "id").t = "str"

\* ... lacking one of year, title, id.
IncompleteBody(i) ==
  /\ ObjectBody(i)
  /\ \E key \in {"year", "title", "id"} : ~HasMember(event[i].body.toks, key)

FirstMissing(i) ==
  LET toks == event[i].body.toks
  IN  IF ~HasMember(toks, "year") THEN "year"
      ELSE IF ~HasMember(toks, "title") THEN "title" ELSE "id"

\* Invocation i was called without a body / with a null or empty body.
WithoutBody(i) == pc[i] # "idle" /\ event[i].body.k = "absent"
EmptyBody(i) ==
  /\ pc[i] # "idle"
  /\ \/ event[i].body.k = "null"
     \/ event[i].body.k = "str" /\ event[i].body.toks = <<>>

\* The text Python's str() gives a JSON scalar.
TextOfValue(v) ==
  IF v.t = "str" THEN v.s
  ELSE IF v.t = "int" THEN ToString(v.n)
  ELSE IF v.t = "bool" THEN (IF v.n = 1 THEN "True" ELSE "False")
  ELSE "None"

\* The decimal texts of the years the bodies carry.
NumericTexts == {ToString(1999), ToString(2012)}

OkResponse ==
  [statusCode |-> 200,
   headers |-> [h \in {"Content-Type"} |-> "application/json"],
   body |-> "{\"message\": \"Successfully inserted data!\"}"]
TooManyRequests ==
  [statusCode |-> 429,
   headers |-> [h \in {"Content-Type", "Retry-After"} |->
                  IF h = "Retry-After" THEN "5" ELSE "application/json"],
   body |-> "{\"message\": \"Too many requests, please retry later\"}"]
InternalServerError ==
  [statusCode |-> 500,
   headers |-> [h \in {"Content-Type"} |-> "application/json"],
   body |-> "{\"message\": \"Internal server error\"}"]

Logged(i, name) == \E k \in DOMAIN logs[i] : logs[i][k].event = name
LastLog(i) == logs[i][Len(logs[i])]

IsDefaultPut(it) ==
  /\ it.title.S = "The Amazing Spider-Man 2"
  /\ it.year.N = "2012"
  /\ it.id.S \in uuids

-----------------------------------------------------------------------------
(* C1 as claimed: every invocation with a complete body answers 200 and    *)
(* puts once, id as supplied and year as numeric text.                     *)
C1_AsClaimed ==
  \A i \in Invocations :
    (Finished(i) /\ CompleteBody(i)) =>
      /\ response[i].statusCode = 200
      /\ Len(puts[i]) = 1
      /\ puts[i][1].item.id.S = Member(event[i].body.toks, "id").s
      /\ puts[i][1].item.year.N \in NumericTexts

(* C1 amended: an invocation with a complete body whose put the store      *)
(* accepts answers 200 and has put exactly once: id and title as supplied, *)
(* year the str() text of the supplied year.                               *)
C1_CompleteBodyAccepted ==
  \A i \in Invocations :
    (pc[i] = "returned" /\ CompleteBody(i) /\ Accepted(i)) =>
      LET toks == event[i].body.toks
      IN  /\ response[i].statusCode = 200
          /\ Len(puts[i]) = 1
          /\ puts[i][1].item.id.S = Member(toks, "id").s
          /\ puts[i][1].item.title.S = Member(toks, "title").s
          /\ puts[i][1].item.year.N = TextOfValue(Member(toks, "year"))
          /\ Member(toks, "year").t = "int" => puts[i][1].item.year.N \in NumericTexts

C1_Witness ==
  \E i \in Invocations :
    /\ pc[i] = "returned" /\ CompleteBody(i) /\ Accepted(i)
    /\ Member(event[i].body.toks, "year") = JInt(2012)
    /\ response[i] = OkResponse
    /\ puts[i][1].item.year.N = "2012"
    /\ puts[i][1].item.id.S = "abc123"

(* C2: an invocation whose put fails with                                  *)
(* ProvisionedThroughputExceededException has returned 429 with            *)
(* Content-Type and Retry-After: 5 and the retry message, its last log     *)
(* line is the dynamodb_throttled warning, and that put is its only store  *)
(* call.                                                                   *)
C2_ThrottledIs429 ==
  \A i \in Invocations :
    \A k \in DOMAIN puts[i] :
      puts[i][k].outcome = "ProvisionedThroughputExceededException" =>
        /\ pc[i] = "returned"
        /\ response[i] = TooManyRequests
        /\ Len(puts[i]) = 1
        /\ LastLog(i).event = "dynamodb_throttled"
        /\ LastLog(i).level = "WARNING"
        /\ LastLog(i).request_id = context[i].request_id

C2_Witness ==
  \E i \in Invocations :
    /\ pc[i] = "returned"
    /\ Len(puts[i]) = 1
    /\ puts[i][1].outcome = "ProvisionedThroughputExceededException"
    /\ response[i].statusCode = 429
    /\ response[i].headers["Retry-After"] = "5"

(* C3 as claimed: every invocation whose body is an object lacking one of  *)
(* year, title, id answers 500 with the generic body, puts nothing, and    *)
(* logs an error event with the failure's type and message.                *)
C3_AsClaimed ==
  \A i \in Invocations :
    (Finished(i) /\ IncompleteBody(i)) =>
      /\ response[i] = InternalServerError
      /\ puts[i] = <<>>
      /\ Logged(i, "error")
      /\ LastLog(i).event = "error"
      /\ LastLog(i).error_type = "KeyError"
      /\ LastLog(i).error_message = "'" \o FirstMissing(i) \o "'"

\* What holds of such an invocation once it has entered the try block.
C3_InsideTry ==
  \A i \in Invocations :
    (pc[i] # "raised" /\ IncompleteBody(i)) =>
      /\ pc[i] = "returned"
      /\ response[i] = InternalServerError
      /\ puts[i] = <<>>
      /\ LastLog(i).event = "error"
      /\ LastLog(i).error_type = "KeyError"
      /\ LastLog(i).error_message = "'" \o FirstMissing(i) \o "'"

(* C4 as claimed: every exit of handler is a returned response, 200 or a   *)
(* non-200 preceded by a dynamodb_throttled, dynamodb_error or error log   *)
(* line; no failure leaves handler without a response and a log.           *)
C4_AsClaimed ==
  \A i \in Invocations :
    Finished(i) =>
      /\ pc[i] = "returned"
      /\ \/ response[i].statusCode = 200
         \/ /\ response[i].statusCode \in {429, 500}
            /\ LastLog(i).event \in {"dynamodb_throttled", "dynamodb_error", "error"}

\* What holds of the exits taken inside the try block.
C4_InsideTry ==
  \A i \in Invocations :
    pc[i] = "returned" =>
      \/ response[i] = OkResponse
      \/ /\ response[i].statusCode \in {429, 500}
         /\ LastLog(i).event \in {"dynamodb_throttled", "dynamodb_error", "error"}
         /\ LastLog(i).event = "error" => response[i] = InternalServerError

\* The id invocation i writes and the title and year it submits: the
\* body's members, or the defaults and the generated id without a body.
WrittenId(i) ==
  IF CompleteBody(i) THEN Member(event[i].body.toks, "id").s ELSE item[i].id.S
SubmittedTitle(i) ==
  IF CompleteBody(i) THEN Member(event[i].body.toks, "title").s
  ELSE "The Amazing Spider-Man 2"
SubmittedYear(i) ==
  IF CompleteBody(i) THEN TextOfValue(Member(event[i].body.toks, "year")) ELSE "2012"

Holds(id, i) ==
  /\ id \in DOMAIN store
  /\ store[id].id.S = id
  /\ store[id].title.S = SubmittedTitle(i)
  /\ store[id].year.N = SubmittedYear(i)

(* C5 as claimed: at the step in which an invocation returns 200, the      *)
(* store holds under the id it wrote exactly the title and year it         *)
(* submitted, whatever the other invocations did meanwhile.                *)
C5_AsClaimed ==
  [][\A i \in Invocations :
       (pc[i] = "written" /\ pc'[i] = "returned" /\ response'[i].statusCode = 200) =>
         /\ WrittenId(i) \in DOMAIN store'
         /\ store'[WrittenId(i)].title.S = SubmittedTitle(i)
         /\ store'[WrittenId(i)].year.N = SubmittedYear(i)]_vars

(* C5 amended: once an invocation has returned 200 the store holds a       *)
(* record under the id it wrote; the record carries that invocation's      *)
(* title and year if no other invocation's put of the same id was          *)
(* accepted, and otherwise those of one of the invocations whose put of    *)
(* that id was accepted.                                                   *)
C5_RoundTrip ==
  \A i \in Invocations :
    (pc[i] = "returned" /\ response[i].statusCode = 200) =>
      /\ Accepted(i)
      /\ \E j \in Invocations :
           Accepted(j) /\ WrittenId(j) = WrittenId(i) /\ Holds(WrittenId(i), j)
      /\ (\A j \in Invocations \ {i} : Accepted(j) => WrittenId(j) # WrittenId(i))
           => Holds(WrittenId(i), i)

C5_Witness ==
  \E i, j \in Invocations :
    /\ i # j
    /\ pc[i] = "returned" /\ response[i].statusCode = 200
    /\ pc[j] = "returned" /\ response[j].statusCode = 200
    /\ WrittenId(i) = WrittenId(j)
    /\ SubmittedTitle(i) # SubmittedTitle(j)
    /\ Holds(WrittenId(i), j)

(* C6: no invocation issues more than one put_item call, whatever the      *)
(* event and whatever the store answers; a failed put is not retried.      *)
C6_AtMostOnePut ==
  \A i \in Invocations :
    /\ Len(puts[i]) <= 1
    /\ (puts[i] # <<>> /\ puts[i][1].outcome # "ok") => pc[i] = "returned"

C6_Witness ==
  \E i, j \in Invocations :
    /\ pc[i] = "returned" /\ Len(puts[i]) = 1
    /\ puts[i][1].outcome = "ProvisionedThroughputExceededException"
    /\ pc[j] = "returned" /\ Len(puts[j]) = 1
    /\ puts[j][1].outcome = "EndpointConnectionError"

(* C7 as claimed: every invocation without a body that returns answers     *)
(* 200 with the success message and has put exactly once: the default      *)
(* title, year 2012 and an id no other such invocation generated.          *)
C7_AsClaimed ==
  \A i \in Invocations :
    (pc[i] = "returned" /\ WithoutBody(i)) =>
      /\ response[i] = OkResponse
      /\ Len(puts[i]) = 1
      /\ IsDefaultPut(puts[i][1].item)
      /\ \A j \in Invocations \ {i} :
           (WithoutBody(j) /\ puts[j] # <<>>) =>
             puts[j][1].item.id.S # puts[i][1].item.id.S

(* C7 amended: an invocation without a body whose put the store accepts    *)
(* answers 200 with the success message and has put exactly once: the      *)
(* default title, year 2012 and an id no other invocation without a body   *)
(* generated.                                                              *)
C7_NoBodyAccepted ==
  \A i \in Invocations :
    (pc[i] = "returned" /\ WithoutBody(i) /\ Accepted(i)) =>
      /\ response[i] = OkResponse
      /\ Len(puts[i]) = 1
      /\ IsDefaultPut(puts[i][1].item)
      /\ \A j \in Invocations \ {i} :
           (WithoutBody(j) /\ pc[j] \in {"put", "written", "returned"}) =>
             item[j].id.S # puts[i][1].item.id.S

C7_Witness ==
  \E i, j \in Invocations :
    /\ i # j
    /\ WithoutBody(i) /\ pc[i] = "returned" /\ response[i] = OkResponse
    /\ WithoutBody(j) /\ pc[j] = "returned" /\ response[j] = OkResponse
    /\ puts[i][1].item.id.S # puts[j][1].item.id.S
    /\ store[puts[i][1].item.id.S].title.S = "The Amazing Spider-Man 2"

(* C8: an invocation whose put fails with a ClientError other than         *)
(* ProvisionedThroughputExceededException has returned 500 with only the   *)
(* Content-Type header and the generic body, and its last log line is a    *)
(* dynamodb_error carrying the provider's error code and message.          *)
C8_ProviderErrorIs500 ==
  \A i \in Invocations :
    \A k \in DOMAIN puts[i] :
      \A e \in ClientErrors :
        (puts[i][k].outcome = e.code
           /\ e.code # "ProvisionedThroughputExceededException") =>
          /\ pc[i] = "returned"
          /\ response[i] = InternalServerError
          /\ DOMAIN response[i].headers = {"Content-Type"}
          /\ LastLog(i).event = "dynamodb_error"
          /\ LastLog(i).level = "ERROR"
          /\ LastLog(i).error_code = e.code
          /\ LastLog(i).error_message = e.message

C8_Witness ==
  \E i \in Invocations :
    /\ pc[i] = "returned"
    /\ Len(puts[i]) = 1
    /\ puts[i][1].outcome = "ResourceNotFoundException"
    /\ response[i].statusCode = 500
    /\ LastLog(i).error_code = "ResourceNotFoundException"
    /\ LastLog(i).error_message = "Requested resource not found"

(* C9: every record in the store has exactly the fields year, title and    *)
(* id, each with a value of its type, and is stored under its id.          *)
C9_RecordsComplete ==
  \A id \in DOMAIN store :
    /\ DOMAIN store[id] = {"year", "title", "id"}
    /\ DOMAIN store[id].year = {"N"}
    /\ DOMAIN store[id].title = {"S"}
    /\ DOMAIN store[id].id = {"S"}
    /\ store[id].id.S = id
    /\ store[id] # NoItem

C9_Witness ==
  /\ Cardinality(DOMAIN store) = 2
  /\ "abc123" \in DOMAIN store
  /\ \E id \in DOMAIN store : id \in uuids
  /\ \E i \in Invocations : pc[i] = "returned" /\ response[i].statusCode = 200

(* C10 as claimed: an invocation whose body is null or the empty string is *)
(* not parsed, puts the default record and answers 200.                    *)
C10_AsClaimed ==
  \A i \in Invocations :
    (Finished(i) /\ EmptyBody(i)) =>
      /\ ~Logged(i, "error")
      /\ Len(puts[i]) = 1
      /\ IsDefaultPut(puts[i][1].item)
      /\ response[i].statusCode = 200

(* C10 amended: an invocation whose body is null or the empty string is    *)
(* never parsed (no payload is logged, no parsing failure is reported),    *)
(* every put it issues is the default record with a generated id, and it   *)
(* answers 200 when the store accepts the put; only an invocation with a   *)
(* non-empty body logs a payload.                                          *)
C10_EmptyBodyIsNoBody ==
  \A i \in Invocations :
    /\ EmptyBody(i) =>
         /\ \A k \in DOMAIN logs[i] :
              /\ logs[i][k].event = "processing_request" => ~logs[i][k].has_payload
              /\ logs[i][k].event = "error" =>
                   logs[i][k].error_type \notin {"JSONDecodeError", "KeyError", "TypeError"}
         /\ pc[i] \in {"put", "written", "returned"} =>
              /\ logs[i][2].event = "processing_request"
              /\ IsDefaultPut(item[i])
         /\ \A k \in DOMAIN puts[i] : IsDefaultPut(puts[i][k].item)
         /\ (pc[i] = "returned" /\ Accepted(i)) =>
              response[i] = OkResponse /\ Len(puts[i]) = 1
    /\ (\E k \in DOMAIN logs[i] :
          logs[i][k].event = "processing_request" /\ logs[i][k].has_payload) =>
         event[i].body.k = "str" /\ event[i].body.toks # <<>>

C10_Witness ==
  \E i, j \in Invocations :
    /\ event[i].body.k = "str" /\ event[i].body.toks = <<>>
    /\ event[j].body.k = "null"
    /\ pc[i] = "returned" /\ response[i] = OkResponse /\ IsDefaultPut(puts[i][1].item)
    /\ pc[j] = "returned" /\ response[j] = OkResponse /\ IsDefaultPut(puts[j][1].item)

====
